---- MODULE Spec2Model ----
(***************************************************************************)
(* The structure-viewer component of the MatGen frontend                   *)
(* (frontend/src/lib/StructureViewer.svelte) as a state machine.           *)
(*                                                                         *)
(* The component is single-threaded and event-driven.  One action of the   *)
(* model is one browser task together with the microtasks it queues: the   *)
(* synchronous part of a handler up to its next await, or the continuation *)
(* of an await up to the following one.  The environment (the network, the *)
(* CDN serving 3Dmol.js, the 15 s timer, the user changing the structure   *)
(* reference, the parent unmounting the component) chooses which task runs *)
(* next.                                                                   *)
(***************************************************************************)
EXTENDS Integers, Sequences, FiniteSets, TLC

\* ------------------------------------------------------------------ bounds
MaxLoads == 3        \* fetches started by one component instance
MaxRefChanges == 1   \* changes of the cifUrl prop of one component instance

NULL == "null"

\* A JavaScript string as its characters, or null.
JsNull == [isNull |-> TRUE, chars |-> <<>>]
Str(chars) == [isNull |-> FALSE, chars |-> chars]

\* --------------------------------------------------------------- resources
\* Structure references the parent may bind to cifUrl, and what the
\* structure endpoint serves for each (README: GET /api/structures/<name>).
Refs == {"a.cif", "b.cif", "notes.txt", "broken.cif"}

\* An atom of a parsed model: element symbol, serial, position (one number
\* stands for the x,y,z triple; positions are distinct across structures).
Atom(e, s, p) == [elem |-> e, serial |-> s, pos |-> p]

\* Content kinds: "cif" parses into atoms, "nomarker" holds neither "data_"
\* nor "_cell_", "malformed" holds a marker but addModel throws on it.
Resource(ref) ==
    CASE ref = "a.cif" -> [kind |-> "cif",
                           atoms |-> <<Atom("Fe", 1, 11), Atom("O", 2, 12)>>]
      [] ref = "b.cif" -> [kind |-> "cif",
                           atoms |-> <<Atom("Si", 1, 21), Atom("O", 2, 22),
                                       Atom("O", 3, 23)>>]
      [] ref = "notes.txt" -> [kind |-> "nomarker", atoms |-> <<>>]
      [] OTHER -> [kind |-> "malformed", atoms |-> <<>>]

VARIABLES
    phase,        \* "constructed" | "mounted" | "destroyed"
    libLoaded,    \* window.$3Dmol is defined
    initPc,       \* initViewer: "idle" | "awaitLib" | "awaitDelay" | "done"
    cifUrl,       \* the prop
    viewer,       \* NULL or the viewer instance
    vmodels,      \* the models held by the viewer instance (atoms of each)
    loading,
    error,
    atomsInfo,
    atomStats,
    loads,        \* loadStructure invocations suspended at an await
    \* history
    fetchCount,   \* fetches started
    libRequests,  \* script elements appended by load3DMol
    refChanges,
    lastCause,    \* which failure branch last wrote the error slot
    latest,       \* the most recently started load and its outcome
    everLoadError,\* some load of this instance has ended in LoadError
    lastEvent,    \* the task that ran last: <<name, load id or atom>>
    \* the controls and the selection
    style,
    useElementColors,
    showUnitCell,
    showAtomLabels,
    currentAtom,
    showTooltip,
    \* what the viewer instance draws
    vstyles,      \* draw directives of each atom of the model added last
    unitCells,    \* unit-cell overlays in the scene
    labelSets,    \* label overlays in the scene
    clickable,    \* the click callback is registered
    \* environment
    addReplaces,  \* the library's add calls replace an overlay of the kind
    hoverAtom,    \* the atom under the pointer, or NULL
    pendingRenders, \* 100 ms render timers armed by the resize observer
    \* history
    sizeChanges,  \* size changes of the container while a viewer existed
    resizeCalls,  \* calls of viewer.resize()
    resizeRenders,\* renders run by the resize timers
    \* the pure functions, applied to drawn inputs
    apiDef,       \* which definition of getStructureUrl in api.ts is built
    symbol,
    elementAnswers,
    path,
    urlAnswers,
    \* the generation form (MaterialForm)
    query,
    formLoading,  \* the form's loading
    formError,    \* the form's error
    request,      \* the generateMaterials call suspended at an await
    \* history
    submits,      \* submit events handled
    requests,     \* POST requests sent
    events,       \* the events dispatched by the form, in order
    \* the page root (App)
    generatedMaterials,
    selectedMaterial,
    processTime

lifeVars == <<phase, libLoaded, initPc, cifUrl, viewer, vmodels, loading,
              error, atomsInfo, atomStats, loads, fetchCount, libRequests,
              refChanges, lastCause, latest, everLoadError>>
uiVars == <<style, useElementColors, showUnitCell, showAtomLabels,
            currentAtom, showTooltip>>
sceneVars == <<vstyles, unitCells, labelSets, clickable>>
pointerVars == <<hoverAtom, pendingRenders, sizeChanges, resizeCalls,
                 resizeRenders>>
pureVars == <<apiDef, symbol, elementAnswers, path, urlAnswers>>
appVars == <<query, formLoading, formError, request, submits, requests,
             events, generatedMaterials, selectedMaterial, processTime>>

vars == <<lifeVars, lastEvent, uiVars, sceneVars, addReplaces, pointerVars,
          pureVars, appVars>>

\* ------------------------------------------------------ element reference
\* elementData, restricted to the elements of the structures above.
elementData ==
    [Fe |-> [name |-> "Iron", symbol |-> "Fe", atomicNumber |-> 26,
             category |-> "Transition Metal", color |-> "#E06633"],
     O  |-> [name |-> "Oxygen", symbol |-> "O", atomicNumber |-> 8,
             category |-> "Nonmetal", color |-> "#FF0D0D"],
     Si |-> [name |-> "Silicon", symbol |-> "Si", atomicNumber |-> 14,
             category |-> "Metalloid", color |-> "#F0C8A0"]]

\* The placeholder record built by getElementData.
defaultElement(sym) ==
    [name |-> "Unknown", symbol |-> sym, atomicNumber |-> 0,
     category |-> "Unknown", color |-> "#CCCCCC"]

\* elementData is an object literal: a property read that finds no own key
\* goes on to Object.prototype.  Three of the inherited members.
ObjectPrototype == {"constructor", "toString", "valueOf"}

Inherited(key) == [inherited |-> key]

\* `elementData[symbol] || defaultElement`: an own record and an inherited
\* member are both truthy.
getElementData(sym) ==
    IF sym \in DOMAIN elementData THEN elementData[sym]
    ELSE IF sym \in ObjectPrototype THEN Inherited(sym)
    ELSE defaultElement(sym)

getElementColor(sym) == getElementData(sym).color

\* ------------------------------------------------------- extractAtomInfo
\* viewer.getModel() without an id: the model added last (its atoms).
getModel(models) == models[Len(models)]

\* Mutant: the atomic number is not taken from the element record.
AtomInfoOfNoNumber(atom) ==
    [element |-> atom.elem,
     atomicNumber |-> 0,
     position |-> atom.pos,
     elementProperties |-> getElementData(atom.elem)]

AtomInfoOf(atom) ==
    [element |-> atom.elem,
     atomicNumber |-> getElementData(atom.elem).atomicNumber,
     position |-> atom.pos,
     elementProperties |-> getElementData(atom.elem)]

\* The loop of extractAtomInfo over atoms[1..n], from empty accumulators.
RECURSIVE ExtractLoop(_, _)
ExtractLoop(atoms, n) ==
    IF n = 0 THEN [info |-> <<>>, stats |-> <<>>]
    ELSE LET acc == ExtractLoop(atoms, n - 1)
             e   == atoms[n].elem
             old == IF e \in DOMAIN acc.stats THEN acc.stats[e] ELSE 0
         IN [info  |-> Append(acc.info, AtomInfoOf(atoms[n])),
             stats |-> [k \in DOMAIN acc.stats \cup {e} |->
                          IF k = e THEN old + 1 ELSE acc.stats[k]]]

\* atomStats is an object keyed by element symbol; the empty object is <<>>.
extractAtomInfo(models, info, stats) ==
    IF models = <<>>
    THEN [info |-> info, stats |-> stats]
    ELSE ExtractLoop(getModel(models), Len(getModel(models)))

\* ------------------------------------------------------------ error slot
LibraryError(msg)      == "Failed to load 3DMol.js: " \o msg
ConstructionError(msg) == "Failed to create 3D viewer: " \o msg
StructureError(msg)    == "Failed to load structure: " \o msg

MsgScriptError   == "Failed to load 3DMol.js"
MsgNoGlobal      == "3DMol.js loaded but $3Dmol is not defined"
MsgViewerNull    == "Failed to create 3DMol viewer - returned null/undefined"
MsgViewerThrew   == "WebGL context could not be created"
MsgHttpStatus    == "Server returned 404 NOT FOUND"
MsgTimedOut      == "Request timed out. Server may be unavailable."
MsgNetwork       == "Failed to fetch"
\* Mutant: a validation failure reported as a network failure.
MsgInvalidFormatAsNetwork == "Failed to fetch"
MsgInvalidFormat == "Response is not a valid CIF file"
MsgParse         == "Cannot read properties of undefined"
\* Mutant: the branch for a null reference sets no message.
MsgNoUrlAbsent   == NULL
MsgNoUrl         == "No structure URL provided"

\* ------------------------------------------------------------------ loads
\* A loadStructure invocation suspended at `await fetch` (pc "headers", the
\* 15 s timer armed) or at `await response.text()` (pc "body", the timer
\* cleared).  ref is the reference fullUrl was resolved from; elapsed says
\* that 15 s have passed since the fetch was issued.
NewLoad(id, ref) ==
    [id |-> id, ref |-> ref, pc |-> "headers", timer |-> "armed",
     elapsed |-> FALSE]

\* latest: the load started last, whether a load of this instance had
\* already ended in LoadError when it started, and how it ended.
NoLoad == [id |-> 0, ref |-> NULL, afterError |-> FALSE, outcome |-> "none"]

\* Mutant: the guard tests the reference only.
CanLoadIgnoresViewer(v, ref) == ref # NULL

\* The guard of loadStructure and of the reactive block.
CanLoad(v, ref) == v # NULL /\ ref # NULL

\* `$: if (viewer && cifUrl) loadStructure()` runs in the update flushed
\* after viewer or cifUrl was invalidated, while the component is mounted.
ReactiveLoads(ph, v, ref) ==
    IF ph = "mounted" /\ CanLoad(v, ref) THEN 1 ELSE 0

\* k invocations of loadStructure for reference ref in one task: each sets
\* loading and clears the error, then issues its own fetch.
BeginLoads(k, ref) ==
    /\ fetchCount + k <= MaxLoads
    /\ loading' = TRUE
    /\ error' = NULL
    /\ lastCause' = "none"
    /\ loads' = loads \cup {NewLoad(fetchCount + i, ref) : i \in 1..k}
    /\ fetchCount' = fetchCount + k
    /\ latest' = [id |-> fetchCount + k, ref |-> ref,
                  afterError |-> everLoadError, outcome |-> "pending"]

Settled(l, outcome) ==
    IF l.id = latest.id THEN [latest EXCEPT !.outcome = outcome] ELSE latest

\* Mutant: the catch handler issues the fetch again.
FailLoadRetry(l, cause, msg) ==
    /\ error' = StructureError(msg)
    /\ lastCause' = cause
    /\ latest' = Settled(l, "failed")
    /\ everLoadError' = TRUE
    /\ IF fetchCount < MaxLoads
       THEN /\ loading' = TRUE
            /\ loads' = (loads \ {l}) \cup {NewLoad(fetchCount + 1, l.ref)}
            /\ fetchCount' = fetchCount + 1
       ELSE /\ loading' = FALSE
            /\ loads' = loads \ {l}
            /\ UNCHANGED fetchCount

\* The outer catch of loadStructure.
FailLoad(l, cause, msg) ==
    /\ error' = StructureError(msg)
    /\ loading' = FALSE
    /\ lastCause' = cause
    /\ loads' = loads \ {l}
    /\ latest' = Settled(l, "failed")
    /\ everLoadError' = TRUE
    /\ UNCHANGED <<fetchCount>>

\* ------------------------------------------------------------------ scene
MaxOverlays == 3     \* overlays of one kind held by the scene
MaxResizes == 2      \* size changes of the viewer container

DEFAULT == "default"

\* One entry of a 3Dmol style object, e.g. sphere: {scale: 0.5}.
Directive(kind, size, color, opacity) ==
    [kind |-> kind, size |-> size, color |-> color, opacity |-> opacity]

\* The options of the style select.
Styles == {"ball and stick", "stick", "sphere", "line"}

\* styleObj of updateStyle.
StyleObj(st) ==
    CASE st = "stick"  -> {Directive("stick", "0.3", DEFAULT, DEFAULT)}
      [] st = "sphere" -> {Directive("sphere", "0.6", DEFAULT, DEFAULT)}
      [] st = "line"   -> {Directive("line", DEFAULT, DEFAULT, DEFAULT)}
      [] st = "cartoon" -> {Directive("cartoon", DEFAULT, DEFAULT, DEFAULT)}
      [] OTHER -> {Directive("stick", "0.3", DEFAULT, DEFAULT),
                   Directive("sphere", "0.5", DEFAULT, DEFAULT)}

\* Mutant: the colouring uses the ball-and-stick object for every style.
ColorObjAnyStyle(st, color) ==
    {Directive("sphere", DEFAULT, color, DEFAULT),
     Directive("stick", DEFAULT, color, DEFAULT)}

\* The style object updateStyle sets per element when colouring: the colour
\* only.  A style without a branch keeps styleObj.
ColorObj(st, color) ==
    CASE st = "ball and stick" ->
              {Directive("sphere", DEFAULT, color, DEFAULT),
               Directive("stick", DEFAULT, color, DEFAULT)}
      [] st = "sphere" -> {Directive("sphere", DEFAULT, color, DEFAULT)}
      [] st = "stick"  -> {Directive("stick", DEFAULT, color, DEFAULT)}
      [] st = "line"   -> {Directive("line", DEFAULT, color, DEFAULT)}
      [] OTHER -> StyleObj(st)

\* The style loadStructure sets, without and with an element colour.
LoadObj(color) ==
    {Directive("stick", "0.3", color, "1.0"),
     Directive("sphere", "0.5", color, "1.0")}

\* The style the click callback sets on the clicked atom.
HighlightObj == {Directive("sphere", "0.7", "#FFC107", "1.0")}

\* The scene of the viewer instance: per-atom styles and overlays.
Scene == [styles |-> vstyles, unitCells |-> unitCells,
          labelSets |-> labelSets]

\* viewer.clear() removes models, shapes and labels.
ClearedScene == [styles |-> <<>>, unitCells |-> 0, labelSets |-> 0]

\* The atoms a selection {} ranges over.
SceneAtoms == IF vmodels = <<>> THEN <<>> ELSE getModel(vmodels)

\* The controls as the handlers read them.
Controls == [style |-> style, colors |-> useElementColors,
             unitCell |-> showUnitCell, labels |-> showAtomLabels]

\* viewer.addUnitCell() / viewer.addLabels(): one more overlay of the kind,
\* or the one overlay of the kind when the library replaces.
AddOverlay(n, replaces) == IF replaces THEN 1 ELSE n + 1

\* Some entry of atomsInfo has element e (the colouring loop reaches it).
Listed(info, e) == \E i \in DOMAIN info : info[i].element = e

\* Mutant: the labels are added only when the unit cell is not.
updateStyleElse(sc, ctl) ==
    IF viewer = NULL THEN sc
    ELSE [styles |->
            [i \in DOMAIN SceneAtoms |->
               IF ctl.colors /\ Listed(atomsInfo, SceneAtoms[i].elem)
               THEN ColorObj(ctl.style, getElementColor(SceneAtoms[i].elem))
               ELSE StyleObj(ctl.style)],
          unitCells |-> IF ctl.unitCell
                        THEN AddOverlay(sc.unitCells, addReplaces)
                        ELSE sc.unitCells,
          labelSets |-> IF ctl.labels /\ ~ctl.unitCell
                        THEN AddOverlay(sc.labelSets, addReplaces)
                        ELSE sc.labelSets]

\* updateStyle: setStyle({}, styleObj), the per-element colours, then one
\* add call per enabled overlay; nothing is removed.
updateStyle(sc, ctl) ==
    IF viewer = NULL THEN sc
    ELSE [styles |->
            [i \in DOMAIN SceneAtoms |->
               IF ctl.colors /\ Listed(atomsInfo, SceneAtoms[i].elem)
               THEN ColorObj(ctl.style, getElementColor(SceneAtoms[i].elem))
               ELSE StyleObj(ctl.style)],
          unitCells |-> IF ctl.unitCell
                        THEN AddOverlay(sc.unitCells, addReplaces)
                        ELSE sc.unitCells,
          labelSets |-> IF ctl.labels
                        THEN AddOverlay(sc.labelSets, addReplaces)
                        ELSE sc.labelSets]

\* Lines 252-278 of loadStructure on the cleared scene: the fixed
\* ball-and-stick style, element colours, the unit cell; no labels.
LoadScene(atoms, info, ctl) ==
    [styles |-> [i \in DOMAIN atoms |->
                   IF ctl.colors /\ Listed(info, atoms[i].elem)
                   THEN LoadObj(getElementColor(atoms[i].elem))
                   ELSE LoadObj(DEFAULT)],
     unitCells |-> IF ctl.unitCell
                   THEN AddOverlay(ClearedScene.unitCells, addReplaces)
                   ELSE ClearedScene.unitCells,
     labelSets |-> ClearedScene.labelSets]

\* The scene stays within the bound.
InBounds(sc) == sc.unitCells <= MaxOverlays /\ sc.labelSets <= MaxOverlays

\* currentAtom = null.
NoAtom == [element |-> NULL, atomicNumber |-> 0, position |-> 0,
           elementProperties |-> defaultElement(NULL)]

\* ------------------------------------------------------------------- Init
\* The script state of a new component instance.
ComponentInit ==
    /\ phase = "constructed"
    /\ initPc = "idle"
    /\ viewer = NULL
    /\ vmodels = <<>>
    /\ loading = TRUE
    /\ error = NULL
    /\ atomsInfo = <<>>
    /\ atomStats = <<>>
    /\ loads = {}
    /\ fetchCount = 0
    /\ libRequests = 0
    /\ refChanges = 0
    /\ lastCause = "none"
    /\ latest = NoLoad
    /\ everLoadError = FALSE
    /\ lastEvent = <<"construct", 0>>
    /\ style = "ball and stick"
    /\ useElementColors = TRUE
    /\ showUnitCell = TRUE
    /\ showAtomLabels = FALSE
    /\ currentAtom = NoAtom
    /\ showTooltip = FALSE
    /\ vstyles = <<>>
    /\ unitCells = 0
    /\ labelSets = 0
    /\ clickable = FALSE

\* No pointer over an atom, no size change yet.
PointerIdle ==
    /\ hoverAtom = 0
    /\ pendingRenders = 0
    /\ sizeChanges = 0
    /\ resizeCalls = 0
    /\ resizeRenders = 0

\* The component does not call the lookups with inputs of its own choice.
PureIdle ==
    /\ apiDef = 1
    /\ symbol = NULL
    /\ elementAnswers = <<>>
    /\ path = JsNull
    /\ urlAnswers = <<>>

\* selectedMaterial = null.
NoMaterial == [material_id |-> <<0, 0>>, cif_url |-> NULL]

\* No generateMaterials call is suspended.
NoRequest == [pc |-> "none", n |-> 0]

\* The script state of a new form and a new page root.
AppIdle ==
    /\ query = <<>>
    /\ formLoading = FALSE
    /\ formError = NULL
    /\ request = NoRequest
    /\ submits = 0
    /\ requests = 0
    /\ events = <<>>
    /\ generatedMaterials = <<>>
    /\ selectedMaterial = NoMaterial
    /\ processTime = NULL

\* The lifecycle: any reference, the library present or not.  Every load
\* clears the scene before it adds to it and no control is operated, so
\* the library's way of adding overlays is not observable here.
Init ==
    /\ ComponentInit
    /\ libLoaded \in BOOLEAN
    /\ cifUrl \in Refs \cup {NULL}
    /\ addReplaces = FALSE
    /\ PointerIdle
    /\ PureIdle
    /\ AppIdle

\* ------------------------------------------------------------ initViewer
\* onMount: initViewer up to `await load3DMol()`.
Mount ==
    /\ UNCHANGED <<uiVars, sceneVars, addReplaces, pointerVars, pureVars, appVars>>
    /\ phase = "constructed"
    /\ phase' = "mounted"
    /\ loading' = TRUE
    /\ error' = NULL
    /\ lastCause' = "none"
    /\ IF libLoaded
       THEN initPc' = "awaitDelay" /\ UNCHANGED libRequests
       ELSE initPc' = "awaitLib" /\ libRequests' = libRequests + 1
    /\ lastEvent' = <<"Mount", 0>>
    /\ UNCHANGED <<libLoaded, cifUrl, viewer, vmodels, atomsInfo, atomStats,
                   loads, fetchCount, refChanges, latest,
                   everLoadError>>

\* script.onload with window.$3Dmol defined.
LibraryLoaded ==
    /\ UNCHANGED <<uiVars, sceneVars, addReplaces, pointerVars, pureVars, appVars>>
    /\ initPc = "awaitLib"
    /\ libLoaded' = TRUE
    /\ initPc' = "awaitDelay"
    /\ lastEvent' = <<"LibraryLoaded", 0>>
    /\ UNCHANGED <<phase, cifUrl, viewer, vmodels, loading, error, atomsInfo,
                   atomStats, loads, fetchCount, libRequests, refChanges, lastCause, latest, everLoadError>>

\* script.onerror, or script.onload without window.$3Dmol.
LibraryFailed(msg) ==
    /\ UNCHANGED <<uiVars, sceneVars, addReplaces, pointerVars, pureVars, appVars>>
    /\ initPc = "awaitLib"
    /\ error' = LibraryError(msg)
    /\ loading' = FALSE
    /\ lastCause' = "library"
    /\ initPc' = "libError"
    /\ lastEvent' = <<"LibraryFailed", 0>>
    /\ UNCHANGED <<phase, libLoaded, cifUrl, viewer, vmodels, atomsInfo,
                   atomStats, loads, fetchCount, libRequests, refChanges, latest, everLoadError>>

\* After the 100 ms delay: createViewer returns a viewer; then the explicit
\* loadStructure call of initViewer and the reactive block both run.
ViewerCreated ==
    /\ UNCHANGED <<uiVars, sceneVars, addReplaces, pointerVars, pureVars, appVars>>
    /\ initPc = "awaitDelay"
    /\ viewer' = "viewer"
    /\ vmodels' = <<>>
    /\ initPc' = "ready"
    /\ IF cifUrl # NULL
       THEN BeginLoads(1 + ReactiveLoads(phase, viewer', cifUrl), cifUrl)
       ELSE /\ error' = MsgNoUrl
            /\ loading' = FALSE
            /\ lastCause' = "nourl"
            /\ UNCHANGED <<loads, fetchCount, latest>>
    /\ lastEvent' = <<"ViewerCreated", 0>>
    /\ UNCHANGED <<phase, libLoaded, cifUrl, atomsInfo, atomStats,
                   libRequests, refChanges, everLoadError>>

\* createViewer throws or returns null/undefined.
ViewerFailed(msg) ==
    /\ UNCHANGED <<uiVars, sceneVars, addReplaces, pointerVars, pureVars, appVars>>
    /\ initPc = "awaitDelay"
    /\ error' = ConstructionError(msg)
    /\ loading' = FALSE
    /\ lastCause' = "construction"
    /\ initPc' = "viewerError"
    /\ lastEvent' = <<"ViewerFailed", 0>>
    /\ UNCHANGED <<phase, libLoaded, cifUrl, viewer, vmodels, atomsInfo,
                   atomStats, loads, fetchCount, libRequests, refChanges, latest, everLoadError>>

\* --------------------------------------------------------- loadStructure
\* Mutant: clear() leaves the models in place.
ViewerClearKeeps(models) == models

\* viewer.clear(): the viewer holds no model afterwards.
ViewerClear(models) == <<>>

\* Mutant: the atom info is appended to, never reset.
ApplyModelAccumulates(models, info, stats, atoms) ==
    LET added == Append(ViewerClear(models), atoms)
        ex    == extractAtomInfo(added, <<>>, <<>>)
    IN [models |-> added,
        info   |-> info \o ex.info,
        stats  |-> [e \in DOMAIN stats \cup DOMAIN ex.stats |->
                      (IF e \in DOMAIN stats THEN stats[e] ELSE 0)
                      + (IF e \in DOMAIN ex.stats THEN ex.stats[e] ELSE 0)]]

\* Lines 229-250 for content that parses: clear the viewer and the atom
\* info, add the model, rebuild the atom info from the viewer's model.
ApplyModel(models, info, stats, atoms) ==
    LET added == Append(ViewerClear(models), atoms)
        ex    == extractAtomInfo(added, <<>>, <<>>)
    IN [models |-> added, info |-> ex.info, stats |-> ex.stats]

\* The cifUrl prop is set by the parent; the reactive block then runs.
ChangeRef(r) ==
    /\ UNCHANGED <<uiVars, sceneVars, addReplaces, pointerVars, pureVars, appVars>>
    /\ phase = "mounted"
    /\ r # cifUrl
    /\ refChanges < MaxRefChanges
    /\ cifUrl' = r
    /\ refChanges' = refChanges + 1
    /\ IF ReactiveLoads(phase, viewer, r) = 1
       THEN BeginLoads(1, r)
       ELSE UNCHANGED <<loading, error, lastCause, loads, fetchCount, latest>>
    /\ lastEvent' = <<"ChangeRef", 0>>
    /\ UNCHANGED <<phase, libLoaded, initPc, viewer, vmodels, atomsInfo,
                   atomStats, libRequests, everLoadError>>

\* fetch resolves with an OK response: clearTimeout, then response.text().
HeadersOk(l) ==
    /\ UNCHANGED <<uiVars, sceneVars, addReplaces, pointerVars, pureVars, appVars>>
    /\ l.pc = "headers"
    /\ loads' = (loads \ {l}) \cup
                 {[l EXCEPT !.pc = "body", !.timer = "cleared"]}
    /\ lastEvent' = <<"HeadersOk", l.id>>
    /\ UNCHANGED <<phase, libLoaded, initPc, cifUrl, viewer, vmodels, loading,
                   error, atomsInfo, atomStats, fetchCount, libRequests,
                   refChanges, lastCause, latest, everLoadError>>

\* fetch resolves with a response that is not ok.
HeadersNotOk(l) ==
    /\ UNCHANGED <<uiVars, sceneVars, addReplaces, pointerVars, pureVars, appVars>>
    /\ l.pc = "headers"
    /\ FailLoad(l, "fetch", MsgHttpStatus)
    /\ lastEvent' = <<"HeadersNotOk", l.id>>
    /\ UNCHANGED <<phase, libLoaded, initPc, cifUrl, viewer, vmodels,
                   atomsInfo, atomStats, libRequests, refChanges>>

\* fetch, or response.text(), rejects with a network error.
NetworkError(l) ==
    /\ UNCHANGED <<uiVars, sceneVars, addReplaces, pointerVars, pureVars, appVars>>
    /\ FailLoad(l, "fetch", MsgNetwork)
    /\ lastEvent' = <<"NetworkError", l.id>>
    /\ UNCHANGED <<phase, libLoaded, initPc, cifUrl, viewer, vmodels,
                   atomsInfo, atomStats, libRequests, refChanges>>

\* The 15 s timer fires while armed: controller.abort() rejects the fetch
\* with AbortError, which the inner catch turns into the timeout error.
TimerFires(l) ==
    /\ UNCHANGED <<uiVars, sceneVars, addReplaces, pointerVars, pureVars, appVars>>
    /\ l.timer = "armed"
    /\ FailLoad(l, "fetch", MsgTimedOut)
    /\ lastEvent' = <<"TimerFires", l.id>>
    /\ UNCHANGED <<phase, libLoaded, initPc, cifUrl, viewer, vmodels,
                   atomsInfo, atomStats, libRequests, refChanges>>

\* 15 s pass after the timer was cleared: nothing runs.
DeadlinePasses(l) ==
    /\ UNCHANGED <<uiVars, sceneVars, addReplaces, pointerVars, pureVars, appVars>>
    /\ l.timer = "cleared"
    /\ ~l.elapsed
    /\ loads' = (loads \ {l}) \cup {[l EXCEPT !.elapsed = TRUE]}
    /\ lastEvent' = <<"DeadlinePasses", l.id>>
    /\ UNCHANGED <<phase, libLoaded, initPc, cifUrl, viewer, vmodels, loading,
                   error, atomsInfo, atomStats, fetchCount, libRequests,
                   refChanges, lastCause, latest, everLoadError>>

\* Mutant: the content is not looked at.
LooksLikeCifAlways(content) == TRUE

\* cifData.includes("data_") || cifData.includes("_cell_")
LooksLikeCif(content) == content.kind # "nomarker"

\* response.text() resolves: validation, then the synchronous rest of
\* loadStructure.
BodyArrives(l) ==
    /\ l.pc = "body"
    /\ lastEvent' = <<"BodyArrives", l.id>>
    /\ UNCHANGED <<phase, libLoaded, initPc, cifUrl, viewer, libRequests,
                   refChanges>>
    /\ UNCHANGED <<uiVars, addReplaces, pointerVars, pureVars, appVars>>
    /\ LET content == Resource(l.ref) IN
       CASE ~LooksLikeCif(content) ->
              /\ FailLoad(l, "format", MsgInvalidFormat)
              /\ UNCHANGED <<vmodels, atomsInfo, atomStats, sceneVars>>
         [] LooksLikeCif(content) /\ viewer = NULL ->
              \* every viewer call throws; the first is caught and logged
              /\ FailLoad(l, "parse", MsgParse)
              /\ UNCHANGED <<vmodels, atomsInfo, atomStats, sceneVars>>
         [] LooksLikeCif(content) /\ content.kind # "cif" /\ viewer # NULL ->
              \* cleared, then addModel throws
              /\ vmodels' = ViewerClear(vmodels)
              /\ atomsInfo' = <<>>
              /\ atomStats' = <<>>
              /\ vstyles' = ClearedScene.styles
              /\ unitCells' = ClearedScene.unitCells
              /\ labelSets' = ClearedScene.labelSets
              /\ UNCHANGED clickable
              /\ FailLoad(l, "parse", MsgParse)
         [] content.kind = "cif" /\ viewer # NULL ->
              LET st == ApplyModel(vmodels, atomsInfo, atomStats,
                                   content.atoms)
                  sc == LoadScene(getModel(st.models), st.info, Controls)
              IN
              /\ vmodels' = st.models
              /\ atomsInfo' = st.info
              /\ atomStats' = st.stats
              /\ vstyles' = sc.styles
              /\ unitCells' = sc.unitCells
              /\ labelSets' = sc.labelSets
              /\ clickable' = TRUE
              /\ loading' = FALSE
              /\ loads' = loads \ {l}
              /\ latest' = Settled(l, "ok")
              /\ UNCHANGED <<error, lastCause, fetchCount, everLoadError>>

\* ---------------------------------------------------------------- unmount
\* The cleanup returned from onMount: disconnect the resize observer and
\* clear the viewer.  Nothing else is released or cancelled.
Unmount ==
    /\ phase = "mounted"
    /\ phase' = "destroyed"
    /\ vmodels' = IF viewer # NULL THEN ViewerClear(vmodels) ELSE vmodels
    /\ vstyles' = IF viewer # NULL THEN ClearedScene.styles ELSE vstyles
    /\ unitCells' = IF viewer # NULL THEN ClearedScene.unitCells
                                     ELSE unitCells
    /\ labelSets' = IF viewer # NULL THEN ClearedScene.labelSets
                                     ELSE labelSets
    /\ hoverAtom' = 0
    /\ UNCHANGED <<uiVars, clickable, addReplaces, pendingRenders,
                   sizeChanges, resizeCalls, resizeRenders, pureVars, appVars>>
    /\ lastEvent' = <<"Unmount", 0>>
    /\ UNCHANGED <<libLoaded, initPc, cifUrl, viewer, loading, error,
                   atomsInfo, atomStats, loads, fetchCount, libRequests,
                   refChanges, lastCause, latest, everLoadError>>

\* The parent renders the component again: a new instance with fresh
\* script state.  The suspended continuations of the destroyed instance
\* write to that instance's variables only and leave the model; the
\* counters are per instance.
Remount(r) ==
    /\ phase = "destroyed"
    /\ phase' = "constructed"
    /\ initPc' = "idle"
    /\ cifUrl' = r
    /\ viewer' = NULL
    /\ vmodels' = <<>>
    /\ loading' = TRUE
    /\ error' = NULL
    /\ atomsInfo' = <<>>
    /\ atomStats' = <<>>
    /\ loads' = {}
    /\ lastCause' = "none"
    /\ latest' = NoLoad
    /\ everLoadError' = FALSE
    /\ fetchCount' = 0
    /\ libRequests' = 0
    /\ refChanges' = 0
    /\ lastEvent' = <<"construct", 0>>
    /\ style' = "ball and stick"
    /\ useElementColors' = TRUE
    /\ showUnitCell' = TRUE
    /\ showAtomLabels' = FALSE
    /\ currentAtom' = NoAtom
    /\ showTooltip' = FALSE
    /\ vstyles' = <<>>
    /\ unitCells' = 0
    /\ labelSets' = 0
    /\ clickable' = FALSE
    /\ hoverAtom' = 0
    /\ pendingRenders' = 0
    /\ sizeChanges' = 0
    /\ resizeCalls' = 0
    /\ resizeRenders' = 0
    /\ UNCHANGED <<libLoaded, addReplaces, pureVars, appVars>>

\* ------------------------------------------------------------------- Next
Next ==
    \/ Mount
    \/ LibraryLoaded
    \/ \E msg \in {MsgScriptError, MsgNoGlobal} : LibraryFailed(msg)
    \/ ViewerCreated
    \/ \E msg \in {MsgViewerNull, MsgViewerThrew} : ViewerFailed(msg)
    \/ \E r \in Refs \cup {NULL} : ChangeRef(r)
    \/ \E l \in loads : HeadersOk(l)
    \/ \E l \in loads : HeadersNotOk(l)
    \/ \E l \in loads : NetworkError(l)
    \/ \E l \in loads : TimerFires(l)
    \/ \E l \in loads : DeadlinePasses(l)
    \/ \E l \in loads : BodyArrives(l)
    \/ Unmount
    \/ \E r \in Refs \cup {NULL} : Remount(r)

Spec == Init /\ [][Next]_vars

\* ============================================================= interaction
\* Mutant: the click callback highlights without resetting the styles.
ClickSceneNoReset(sc, ctl, i) ==
    [sc EXCEPT !.styles =
        [j \in DOMAIN sc.styles |->
           IF SceneAtoms[j].serial = SceneAtoms[i].serial
           THEN HighlightObj ELSE sc.styles[j]]]

\* Lines 300-305 of the click callback: updateStyle(), then the highlight
\* style on the atoms with the clicked atom's serial.
ClickScene(sc, ctl, i) ==
    LET reset == updateStyle(sc, ctl) IN
    [reset EXCEPT !.styles =
        [j \in DOMAIN reset.styles |->
           IF SceneAtoms[j].serial = SceneAtoms[i].serial
           THEN HighlightObj ELSE reset.styles[j]]]

\* The atoms drawn with the highlight style.
Highlighted(styles) == {j \in DOMAIN styles : styles[j] = HighlightObj}

\* The loading and the error overlay lie over the viewer container.
CanvasReachable == phase = "mounted" /\ ~loading /\ error = NULL

\* The user clicks atom i of the model on display: the callback registered
\* with setClickable.
Click(i) ==
    /\ CanvasReachable
    /\ clickable
    /\ i \in DOMAIN SceneAtoms
    /\ LET sc == ClickScene(Scene, Controls, i) IN
         /\ InBounds(sc)
         /\ vstyles' = sc.styles
         /\ unitCells' = sc.unitCells
         /\ labelSets' = sc.labelSets
    /\ currentAtom' = AtomInfoOf(SceneAtoms[i])
    /\ lastEvent' = <<"Click", i, Highlighted(vstyles)>>
    /\ UNCHANGED <<lifeVars, style, useElementColors, showUnitCell,
                   showAtomLabels, showTooltip, clickable, addReplaces,
                   pointerVars, pureVars, appVars>>

\* A control changed (bind:value / bind:checked), then handleStyleChange.
\* The controls are disabled while loading.
ControlChanged(ctl, name) ==
    /\ phase = "mounted"
    /\ ~loading
    /\ style' = ctl.style
    /\ useElementColors' = ctl.colors
    /\ showUnitCell' = ctl.unitCell
    /\ showAtomLabels' = ctl.labels
    /\ LET sc == updateStyle(Scene, ctl) IN
         /\ InBounds(sc)
         /\ vstyles' = sc.styles
         /\ unitCells' = sc.unitCells
         /\ labelSets' = sc.labelSets
    /\ lastEvent' = <<name, 0>>
    /\ UNCHANGED <<lifeVars, currentAtom, showTooltip, clickable,
                   addReplaces, pointerVars, pureVars, appVars>>

SelectStyle(st) ==
    /\ st # style
    /\ ControlChanged([Controls EXCEPT !.style = st], "SelectStyle")

ToggleElementColors ==
    ControlChanged([Controls EXCEPT !.colors = ~useElementColors],
                   "ToggleElementColors")

ToggleUnitCell ==
    ControlChanged([Controls EXCEPT !.unitCell = ~showUnitCell],
                   "ToggleUnitCell")

ToggleAtomLabels ==
    ControlChanged([Controls EXCEPT !.labels = ~showAtomLabels],
                   "ToggleAtomLabels")

\* The user selects another material once nothing is in flight.
Reselect(r) ==
    /\ loads = {}
    /\ ChangeRef(r)

\* A component with the library present, a structure to show, and either
\* kind of library.
ViewInit ==
    /\ ComponentInit
    /\ libLoaded = TRUE
    /\ cifUrl = "a.cif"
    /\ addReplaces \in BOOLEAN
    /\ PointerIdle
    /\ PureIdle
    /\ AppIdle

\* Loads that succeed, and the user at the controls and on the canvas.
ViewNext ==
    \/ Mount
    \/ ViewerCreated
    \/ Reselect("b.cif")
    \/ \E l \in loads : HeadersOk(l)
    \/ \E l \in loads : BodyArrives(l)
    \/ \E i \in 1..3 : Click(i)
    \/ \E st \in Styles : SelectStyle(st)
    \/ ToggleElementColors
    \/ ToggleUnitCell
    \/ ToggleAtomLabels

ViewSpec == ViewInit /\ [][ViewNext]_vars

\* ------------------------------------------------------ pointer and resize
\* The pointer comes to rest on atom i.  loadStructure registers the click
\* callback only: no handler runs, nothing but the pointer changes.
PointerEnter(i) ==
    /\ CanvasReachable
    /\ i \in DOMAIN SceneAtoms
    /\ hoverAtom # i
    /\ hoverAtom' = i
    /\ lastEvent' = <<"PointerEnter", i>>
    /\ UNCHANGED <<lifeVars, uiVars, sceneVars, addReplaces, pendingRenders,
                   sizeChanges, resizeCalls, resizeRenders, pureVars, appVars>>

\* The pointer leaves the atom.
PointerLeave ==
    /\ phase = "mounted"
    /\ hoverAtom # 0
    /\ hoverAtom' = 0
    /\ lastEvent' = <<"PointerLeave", 0>>
    /\ UNCHANGED <<lifeVars, uiVars, sceneVars, addReplaces, pendingRenders,
                   sizeChanges, resizeCalls, resizeRenders, pureVars, appVars>>

\* Mutant: the resize callback arms no render timer.
ArmRenderTimerNever(n) == n

\* setTimeout(() => { if (viewer) viewer.render() }, 100).
ArmRenderTimer(n) == n + 1

\* The ResizeObserver callback for the viewer element: with a viewer,
\* viewer.resize() and a render 100 ms later; without one, nothing.
Resize ==
    /\ phase = "mounted"
    /\ sizeChanges < MaxResizes
    /\ IF viewer # NULL
       THEN /\ sizeChanges' = sizeChanges + 1
            /\ resizeCalls' = resizeCalls + 1
            /\ pendingRenders' = ArmRenderTimer(pendingRenders)
       ELSE UNCHANGED <<sizeChanges, resizeCalls, pendingRenders>>
    /\ lastEvent' = <<"Resize", 0>>
    /\ UNCHANGED <<lifeVars, uiVars, sceneVars, addReplaces, hoverAtom,
                   resizeRenders, pureVars, appVars>>

\* A render timer of the resize callback fires.
ResizeRender ==
    /\ pendingRenders > 0
    /\ pendingRenders' = pendingRenders - 1
    /\ resizeRenders' = IF viewer # NULL THEN resizeRenders + 1
                                         ELSE resizeRenders
    /\ lastEvent' = <<"ResizeRender", 0>>
    /\ UNCHANGED <<lifeVars, uiVars, sceneVars, addReplaces, hoverAtom,
                   sizeChanges, resizeCalls, pureVars, appVars>>

PointerInit == ViewInit

\* A displayed structure, the pointer, and a container that changes size.
PointerNext ==
    \/ Mount
    \/ ViewerCreated
    \/ \E l \in loads : HeadersOk(l)
    \/ \E l \in loads : BodyArrives(l)
    \/ \E i \in 1..2 : Click(i)
    \/ \E i \in 1..2 : PointerEnter(i)
    \/ PointerLeave
    \/ Resize
    \/ ResizeRender
    \/ Unmount

\* Timers that are armed fire.
PointerSpec == PointerInit /\ [][PointerNext]_vars /\ WF_vars(ResizeRender)

\* ============================================================ pure lookups
\* Strings are sequences of characters.
startsWith(str, prefix) ==
    Len(str) >= Len(prefix) /\ SubSeq(str, 1, Len(prefix)) = prefix

endsWith(str, suffix) ==
    /\ Len(str) >= Len(suffix)
    /\ SubSeq(str, Len(str) - Len(suffix) + 1, Len(str)) = suffix

\* str.substring(n)
substring(str, n) == SubSeq(str, n + 1, Len(str))

\* str.slice(0, -n)
sliceEnd(str, n) == SubSeq(str, 1, Len(str) - n)

\* str.split('/').pop()
lastSegment(str) ==
    LET slashes == {i \in DOMAIN str : str[i] = "/"} IN
    IF slashes = {} THEN str
    ELSE substring(str, CHOOSE i \in slashes : \A j \in slashes : j <= i)

\* 'http://localhost:5000/api', the default of API_BASE_URL.
API_BASE_URL ==
    <<"h", "t", "t", "p", ":", "/", "/", "l", "o", "c", "a", "l", "h",
      "o", "s", "t", ":", "5", "0", "0", "0", "/", "a", "p", "i">>

HttpPrefix ==
    <<"h", "t", "t", "p">>

ApiPrefix ==
    <<"/", "a", "p", "i", "/">>

ApiSuffix ==
    <<"/", "a", "p", "i">>

ApiStructuresPrefix ==
    <<"/", "a", "p", "i", "/", "s", "t", "r", "u", "c", "t", "u", "r",
      "e", "s", "/">>

StructuresDir ==
    <<"/", "s", "t", "r", "u", "c", "t", "u", "r", "e", "s", "/">>

\* str.replace(/\/api\/?$/, '')
stripApiSuffix(str) ==
    IF endsWith(str, ApiPrefix) THEN sliceEnd(str, Len(ApiPrefix))
    ELSE IF endsWith(str, ApiSuffix) THEN sliceEnd(str, Len(ApiSuffix))
    ELSE str

\* The definition at api.ts:55-76.
getStructureUrlFirst(p) ==
    IF p.isNull \/ p.chars = <<>> THEN JsNull
    ELSE IF startsWith(p.chars, HttpPrefix) THEN p
    ELSE IF startsWith(p.chars, ApiStructuresPrefix)
    THEN LET baseUrl == IF endsWith(API_BASE_URL, ApiSuffix)
                        THEN sliceEnd(API_BASE_URL, 4)
                        ELSE stripApiSuffix(API_BASE_URL)
         IN Str(baseUrl \o p.chars)
    ELSE Str(API_BASE_URL \o StructuresDir \o lastSegment(p.chars))

\* The definition at api.ts:151-166.
getStructureUrlSecond(p) ==
    IF p.isNull \/ p.chars = <<>> THEN JsNull
    ELSE IF startsWith(p.chars, HttpPrefix) THEN p
    ELSE IF startsWith(p.chars, ApiPrefix)
    THEN Str(API_BASE_URL \o substring(p.chars, 4))
    ELSE Str(API_BASE_URL \o p.chars)

\* api.ts holds both definitions under the one exported name.
getStructureUrl(p) ==
    IF apiDef = 1 THEN getStructureUrlFirst(p) ELSE getStructureUrlSecond(p)

\* File names, and the references built from them.
NameX ==
    <<"x", ".", "c", "i", "f">>

NameHttpx ==
    <<"h", "t", "t", "p", "x", ".", "c", "i", "f">>

Names == {NameX, NameHttpx}

AbsoluteX ==
    <<"h", "t", "t", "p", ":", "/", "/", "h", "/", "x", ".", "c", "i",
      "f">>

Paths ==
    {JsNull, Str(<<>>), Str(AbsoluteX), Str(<<"d", "/">> \o NameX),
     Str(<<"/">> \o NameX)}
    \cup {Str(ApiStructuresPrefix \o n) : n \in Names}
    \cup {Str(n) : n \in Names}

\* Element symbols: keys of the table, strings that are no keys, and names
\* of inherited members.
Symbols == {"Fe", "O", "Si", "Xx", "fe", "", "constructor", "toString",
            "valueOf"}

\* getElementData(symbol) is called.
LookupElement ==
    /\ elementAnswers = <<>>
    /\ elementAnswers' = <<getElementData(symbol)>>
    /\ lastEvent' = <<"LookupElement", 0>>
    /\ UNCHANGED <<lifeVars, uiVars, sceneVars, addReplaces, pointerVars,
                   apiDef, symbol, path, urlAnswers, appVars>>

\* getStructureUrl is called on the reference, then on its own result.
ResolveUrl ==
    /\ Len(urlAnswers) < 2
    /\ urlAnswers' = Append(urlAnswers,
                            getStructureUrl(IF urlAnswers = <<>> THEN path
                                            ELSE urlAnswers[1]))
    /\ lastEvent' = <<"ResolveUrl", 0>>
    /\ UNCHANGED <<lifeVars, uiVars, sceneVars, addReplaces, pointerVars,
                   apiDef, symbol, elementAnswers, path, appVars>>

\* The inputs of the two lookups, drawn from the sets above.
PureInit ==
    /\ ComponentInit
    /\ libLoaded = FALSE
    /\ cifUrl = NULL
    /\ addReplaces = FALSE
    /\ PointerIdle
    /\ apiDef \in {1, 2}
    /\ symbol \in Symbols
    /\ elementAnswers = <<>>
    /\ path \in Paths
    /\ urlAnswers = <<>>
    /\ AppIdle

PureNext ==
    \/ LookupElement
    \/ ResolveUrl

PureSpec == PureInit /\ [][PureNext]_vars

\* ================================================= generation form and page
MaxSubmits == 3      \* submit events handled by one form
MaxMaterials == 2    \* materials in one generation response

Whitespace == {" ", "\n"}

\* String.prototype.trim on a character sequence.
RECURSIVE trimStart(_)
trimStart(str) ==
    IF str # <<>> /\ Head(str) \in Whitespace THEN trimStart(Tail(str))
    ELSE str

RECURSIVE trimEnd(_)
trimEnd(str) ==
    IF str # <<>> /\ str[Len(str)] \in Whitespace
    THEN trimEnd(SubSeq(str, 1, Len(str) - 1))
    ELSE str

\* Mutant: nothing is removed.
trimNothing(str) == str

trim(str) == trimEnd(trimStart(str))

\* What the user may have typed into the textarea.
Queries == {<<>>, <<" ">>, <<"\n", " ">>, <<"F", "e">>,
            <<" ", "F", "e", " ">>}

MsgEnterDescription == "Please enter a material description"
MsgGenerateFailed   == "Failed to generate materials"
MsgServerError      == "No materials satisfy the constraints"
MsgNotJson          == "Unexpected token < in JSON at position 0"

\* Material i of the response to request n (objects compare by identity).
Material(n, i) ==
    [material_id |-> <<n, i>>,
     cif_url |-> IF i = 1 THEN "a.cif" ELSE NULL]

\* A parsed response body: materials (possibly missing) and process_time.
Result(n, has, k, t) ==
    [hasMaterials |-> has,
     materials |-> [i \in 1..k |-> Material(n, i)],
     process_time |-> t]

\* The bodies the generate endpoint may answer request n with.
Results(n) ==
    {Result(n, TRUE, k, t) : k \in 0..MaxMaterials, t \in {"0", "2.5"}}
    \cup {Result(n, FALSE, 0, "2.5")}

\* `x || null` for a process time: 0 is falsy.
OrNull(t) == IF t = "0" THEN NULL ELSE t

\* Mutant: the error handler empties the list but keeps the selection.
handleGenerationErrorKeeps(page) ==
    [generatedMaterials |-> <<>>,
     selectedMaterial |-> page.selectedMaterial,
     processTime |-> NULL]

\* The page root's state, and its three handlers as functions of it.
Page == [generatedMaterials |-> generatedMaterials,
         selectedMaterial |-> selectedMaterial,
         processTime |-> processTime]

handleGenerationSuccess(page, result) ==
    LET mats == IF result.hasMaterials THEN result.materials ELSE <<>>
    IN [generatedMaterials |-> mats,
        selectedMaterial |-> IF Len(mats) > 0 THEN mats[1] ELSE NoMaterial,
        processTime |-> OrNull(result.process_time)]

handleGenerationError(page) ==
    [generatedMaterials |-> <<>>,
     selectedMaterial |-> NoMaterial,
     processTime |-> NULL]

selectMaterial(page, material) ==
    [page EXCEPT !.selectedMaterial = material]

SetPage(page) ==
    /\ generatedMaterials' = page.generatedMaterials
    /\ selectedMaterial' = page.selectedMaterial
    /\ processTime' = page.processTime

viewerVars == <<lifeVars, uiVars, sceneVars, addReplaces, pointerVars,
                pureVars>>

\* bind:value of the textarea.
EditQuery(q) ==
    /\ q # query
    /\ query' = q
    /\ lastEvent' = <<"EditQuery", 0>>
    /\ UNCHANGED <<viewerVars, formLoading, formError, request, submits,
                   requests, events, generatedMaterials, selectedMaterial,
                   processTime>>

\* handleSubmit up to its await.  The submit button is disabled while
\* loading; with a blank query the handler returns before sending.
Submit ==
    /\ ~formLoading
    /\ submits < MaxSubmits
    /\ submits' = submits + 1
    /\ IF trim(query) = <<>>
       THEN /\ formError' = MsgEnterDescription
            /\ UNCHANGED <<formLoading, request, requests>>
       ELSE /\ formError' = NULL
            /\ formLoading' = TRUE
            /\ request' = [pc |-> "fetch", n |-> requests + 1]
            /\ requests' = requests + 1
    /\ lastEvent' = <<"Submit", 0>>
    /\ UNCHANGED <<viewerVars, query, events, generatedMaterials,
                   selectedMaterial, processTime>>

\* The catch and finally of handleSubmit: the message, the error event
\* (handled by the page root in the same task), loading off.
SubmitFails(msg, body) ==
    /\ formError' = IF msg = "" THEN MsgGenerateFailed ELSE msg
    /\ events' = Append(events, "error")
    /\ SetPage(handleGenerationError(Page))
    /\ formLoading' = FALSE
    /\ lastEvent' = <<"error", request.pc, body>>
    /\ request' = NoRequest
    /\ UNCHANGED <<viewerVars, query, submits, requests>>

\* fetch rejects: no connection.
FetchFails(msg) ==
    /\ request.pc = "fetch"
    /\ SubmitFails(msg, "none")

\* fetch resolves; generateMaterials goes on to await response.json().
ResponseArrives(ok) ==
    /\ request.pc = "fetch"
    /\ request' = [request EXCEPT !.pc = IF ok THEN "ok" ELSE "notOk"]
    /\ lastEvent' = <<"ResponseArrives", 0>>
    /\ UNCHANGED <<viewerVars, query, formLoading, formError, submits,
                   requests, events, generatedMaterials, selectedMaterial,
                   processTime>>

\* The body of a response that is not ok: its error field, the default
\* message when it has none, or the parser's message when it is no JSON.
ErrorBody(body) ==
    /\ request.pc = "notOk"
    /\ SubmitFails(CASE body = "error" -> MsgServerError
                     [] body = "noerror" -> MsgGenerateFailed
                     [] body = "notjson" -> MsgNotJson,
                   body)

\* The body of an ok response parses: the success event, handled by the
\* page root in the same task, then loading off.
OkBody(result) ==
    /\ request.pc = "ok"
    /\ events' = Append(events, "success")
    /\ SetPage(handleGenerationSuccess(Page, result))
    /\ formLoading' = FALSE
    /\ lastEvent' = <<"success", request.pc, "json">>
    /\ request' = NoRequest
    /\ UNCHANGED <<viewerVars, query, formError, submits, requests>>

\* The body of an ok response is no JSON: response.json() rejects.
OkBodyUnparsable ==
    /\ request.pc = "ok"
    /\ SubmitFails(MsgNotJson, "notjson")

\* A click on card i of the list on display.
CardClick(i) ==
    /\ i \in DOMAIN generatedMaterials
    /\ SetPage(selectMaterial(Page, generatedMaterials[i]))
    /\ lastEvent' = <<"CardClick", i>>
    /\ UNCHANGED <<viewerVars, query, formLoading, formError, request,
                   submits, requests, events>>

\* The page before the first submit; no structure viewer is rendered yet.
AppInit ==
    /\ ComponentInit
    /\ libLoaded = FALSE
    /\ cifUrl = NULL
    /\ addReplaces = FALSE
    /\ PointerIdle
    /\ PureIdle
    /\ AppIdle

AppNext ==
    \/ \E q \in Queries : EditQuery(q)
    \/ Submit
    \/ \E msg \in {"Failed to fetch", ""} : FetchFails(msg)
    \/ \E ok \in BOOLEAN : ResponseArrives(ok)
    \/ \E body \in {"error", "noerror", "notjson"} : ErrorBody(body)
    \/ \E result \in Results(request.n) : OkBody(result)
    \/ OkBodyUnparsable
    \/ \E i \in 1..MaxMaterials : CardClick(i)

AppSpec == AppInit /\ [][AppNext]_vars

\* ================================================================= claims
\* What the statements below read off a state.
ElemCount(atoms, e) == Cardinality({i \in DOMAIN atoms : atoms[i].elem = e})

\* All atoms held by the viewer instance, over all of its models.
ViewerAtoms ==
    UNION {{vmodels[m][j] : j \in DOMAIN vmodels[m]} : m \in DOMAIN vmodels}

ViewerAtomTotal ==
    IF vmodels = <<>> THEN 0
    ELSE Len(vmodels[1]) + (IF Len(vmodels) > 1 THEN Len(vmodels[2]) ELSE 0)
         + (IF Len(vmodels) > 2 THEN Len(vmodels[3]) ELSE 0)
         + (IF Len(vmodels) > 3 THEN Len(vmodels[4]) ELSE 0)

\* atomsInfo and atomStats are exactly the atoms of structure file ref.
InfoIsOf(ref) ==
    LET atoms == Resource(ref).atoms IN
    /\ Len(atomsInfo) = Len(atoms)
    /\ \A i \in DOMAIN atoms :
          /\ atomsInfo[i].element = atoms[i].elem
          /\ atomsInfo[i].position = atoms[i].pos
    /\ DOMAIN atomStats = {atoms[i].elem : i \in DOMAIN atoms}
    /\ \A e \in DOMAIN atomStats : atomStats[e] = ElemCount(atoms, e)

\* Every atomsInfo entry and every atomStats count comes from file ref.
InfoWithin(ref) ==
    LET atoms == Resource(ref).atoms IN
    /\ \A i \in DOMAIN atomsInfo : \E j \in DOMAIN atoms :
          /\ atomsInfo[i].element = atoms[j].elem
          /\ atomsInfo[i].position = atoms[j].pos
    /\ \A i, k \in DOMAIN atomsInfo :
          atomsInfo[i].position = atomsInfo[k].position => i = k
    /\ \A e \in DOMAIN atomStats :
          /\ atomStats[e] = ElemCount(atoms, e)
          /\ atomStats[e] = Cardinality({i \in DOMAIN atomsInfo :
                                            atomsInfo[i].element = e})

\* C1: last-reference-wins.  Once no load is in flight and the load of the
\* most recently requested reference has succeeded, the viewer's model,
\* atomsInfo and atomStats are those of that reference.
C1_LastReferenceWins ==
    (/\ phase = "mounted"
     /\ loads = {}
     /\ cifUrl # NULL
     /\ latest.ref = cifUrl
     /\ latest.outcome = "ok")
    => (vmodels = <<Resource(cifUrl).atoms>> /\ InfoIsOf(cifUrl))

\* C2: in every reachable state atomsInfo and atomStats hold entries of at
\* most one structure file, never of two at once.
C2_AtomInfoFromOneStructure == \E r \in Refs : InfoWithin(r)

\* A load of a.cif was applied after the load of the later reference b.cif
\* had already succeeded: two overlapping loads settled out of order.
C2_Witness ==
    /\ latest.ref = "b.cif"
    /\ latest.outcome = "ok"
    /\ lastEvent[1] = "BodyArrives"
    /\ lastEvent[2] # latest.id
    /\ atomsInfo # <<>>
    /\ atomsInfo[1].position = 11

\* C3: while the component exists, the AtomInfo entries and the per-element
\* counts equal the atoms of the models held by the viewer instance: both
\* empty, or both of the same structure.
C3_AtomInfoMatchesViewer ==
    phase # "destroyed" =>
      /\ {<<atomsInfo[i].element, atomsInfo[i].position>> :
              i \in DOMAIN atomsInfo}
           = {<<a.elem, a.pos>> : a \in ViewerAtoms}
      /\ Len(atomsInfo) = ViewerAtomTotal
      /\ \A e \in DOMAIN atomStats \cup {a.elem : a \in ViewerAtoms} :
            /\ e \in DOMAIN atomStats
            /\ atomStats[e] = Cardinality({a \in ViewerAtoms : a.elem = e})

\* Three loads of one instance all succeeded, the last one replacing a
\* structure that was on display.
C3_Witness ==
    /\ phase = "mounted"
    /\ fetchCount = 3
    /\ loads = {}
    /\ ~everLoadError
    /\ lastEvent[1] = "BodyArrives"
    /\ atomsInfo # <<>>
    /\ cifUrl = "b.cif"

\* Load l of this state is still suspended in the next state.
StillInFlight(l) == \E m \in loads' : m.id = l.id

\* The step is a task of the same component instance (not a re-creation).
SameInstance == phase' # "constructed"

\* C4: a load does not stay in Loading past its 15-second deadline, whether
\* the response headers or the response body are what the network withholds:
\* no load is still suspended once its deadline has passed.
C4_DeadlineEndsLoading == \A l \in loads : ~l.elapsed

\* C5: when the deadline of a fetch that has not delivered its complete
\* content passes, the load ends in LoadError with the timeout error; and
\* after the deadline no completion of that network operation changes the
\* viewer model, atomsInfo, atomStats, loading or error.
C5_DeadlineIsFinal ==
    [][\A l \in loads :
         /\ (/\ ~l.elapsed
             /\ \/ lastEvent' = <<"TimerFires", l.id>>
                \/ lastEvent' = <<"DeadlinePasses", l.id>>)
            => (/\ ~StillInFlight(l)
                /\ error' = "Failed to load structure: Request timed out. Server may be unavailable."
                /\ loading' = FALSE)
         /\ (l.elapsed /\ SameInstance /\ ~StillInFlight(l))
            => UNCHANGED <<vmodels, atomsInfo, atomStats, loading, error>>
      ]_vars

\* C6: after the unmount step no continuation of initViewer or
\* loadStructure constructs a viewer, calls a viewer operation, or changes
\* atomsInfo, atomStats, loading or error, and no fetch is started.
C6_UnmountIsFinal ==
    [][(phase = "destroyed" /\ phase' = "destroyed")
         => /\ UNCHANGED <<viewer, vmodels, atomsInfo, atomStats, loading,
                           error>>
            /\ fetchCount' = fetchCount
      ]_vars

\* C7: after a load has ended in LoadError the viewer instance is still
\* present, and when the load started by a later change of the reference
\* completes successfully the component is Displayed: the new structure in
\* the viewer, loading false, the error slot cleared.
C7_RecoversAfterLoadError ==
    /\ everLoadError => viewer # NULL
    /\ (/\ phase = "mounted"
        /\ latest.afterError
        /\ latest.outcome = "ok"
        /\ lastEvent = <<"BodyArrives", latest.id>>)
       => (/\ vmodels = <<Resource(latest.ref).atoms>>
           /\ loading = FALSE
           /\ error = NULL)

InitFailed == initPc \in {"libError", "viewerError"}

\* C8: InitError is terminal until remount.  The step that fails library
\* acquisition or viewer construction leaves an error displayed, no viewer
\* and nothing in flight; from then on no step of that instance (a change
\* of the structure reference included) starts a library acquisition, a
\* fetch or a load, or changes the error state.
C8_InitErrorTerminal ==
    [][/\ (InitFailed' /\ SameInstance)
          => (/\ error' # NULL
              /\ loading' = FALSE
              /\ viewer' = NULL
              /\ loads' = {})
       /\ (InitFailed /\ SameInstance)
          => (/\ initPc' = initPc
              /\ fetchCount' = fetchCount
              /\ libRequests' = libRequests
              /\ UNCHANGED <<error, loading, viewer>>)
      ]_vars

\* The reference was changed to a loadable structure after the
\* initialization had failed.
C8_Witness ==
    /\ InitFailed
    /\ phase = "mounted"
    /\ lastEvent = <<"ChangeRef", 0>>
    /\ cifUrl = "a.cif"

\* The user-visible error values, by the failure they announce.
C9_ClassOf(e) ==
    CASE e \in {"Failed to load 3DMol.js: Failed to load 3DMol.js",
                "Failed to load 3DMol.js: 3DMol.js loaded but $3Dmol is not defined"}
           -> "library"
      [] e \in {"Failed to create 3D viewer: Failed to create 3DMol viewer - returned null/undefined",
                "Failed to create 3D viewer: WebGL context could not be created"}
           -> "construction"
      [] e \in {"Failed to load structure: Server returned 404 NOT FOUND",
                "Failed to load structure: Request timed out. Server may be unavailable.",
                "Failed to load structure: Failed to fetch"}
           -> "fetch"
      [] e = "Failed to load structure: Response is not a valid CIF file"
           -> "format"
      [] OTHER -> "other"

\* C9: library-load failure, viewer-construction failure, fetch failure and
\* format-validation failure are told apart by the value in the error
\* slot: the value determines which of the four branches wrote it.
C9_ErrorIdentifiesFailure ==
    (error # NULL /\ lastCause \in {"library", "construction", "fetch",
                                     "format"})
    => C9_ClassOf(error) = lastCause

\* A validation failure is on display after an earlier load of the same
\* instance had failed.
C9_Witness ==
    /\ lastCause = "format"
    /\ error # NULL
    /\ latest.afterError

\* C10: no failure is retried.  A step starts a library acquisition or a
\* fetch only if it changes the structure reference, or if it is the
\* initialization of a freshly mounted instance showing no error; a step
\* that settles a failure starts none.
C10_NoAutomaticRetry ==
    [][(fetchCount' > fetchCount \/ libRequests' > libRequests)
         => \/ cifUrl' # cifUrl
            \/ (error = NULL /\ initPc \in {"idle", "awaitDelay"}
                             /\ initPc' # initPc)
      ]_vars

\* A fetch or validation failure is on display and nothing is in flight.
C10_Witness ==
    /\ phase = "mounted"
    /\ error # NULL
    /\ lastCause \in {"fetch", "format"}
    /\ loads = {}
    /\ lastEvent[1] \in {"HeadersNotOk", "NetworkError", "TimerFires",
                          "BodyArrives"}

\* The initialization step of a mount whose reference is null has run and
\* both the library and the viewer construction succeeded.
C11_Witness ==
    /\ lastEvent = <<"ViewerCreated", 0>>
    /\ cifUrl = NULL
    /\ viewer # NULL

\* C11 as stated: such a mount ends with loading false and no error
\* displayed, and an error after mount (before any load) comes only from a
\* library or construction failure.
C11_ReadyWithoutError ==
    /\ C11_Witness => (loading = FALSE /\ error = NULL)
    /\ (phase = "mounted" /\ fetchCount = 0 /\ error # NULL)
          => lastCause \in {"library", "construction"}

\* C11, amended: a mount in which library acquisition and viewer
\* construction succeed while the reference is null ends with the viewer
\* present, nothing loaded, no fetch started, loading false and the error
\* slot holding "No structure URL provided"; before any load an error
\* comes from a library failure, a construction failure or the null
\* reference, and from nothing else.
C11_ReadyShowsNoUrl ==
    /\ C11_Witness
          => (/\ loading = FALSE
              /\ error = "No structure URL provided"
              /\ vmodels = <<>>
              /\ atomsInfo = <<>>
              /\ loads = {}
              /\ fetchCount = 0)
    /\ (phase = "mounted" /\ fetchCount = 0 /\ error # NULL)
          => \/ (lastCause = "library" /\ initPc = "libError")
             \/ (lastCause = "construction" /\ initPc = "viewerError")
             \/ (lastCause = "nourl" /\ initPc = "ready" /\ viewer # NULL)

\* C20: when the reference changes while a structure is displayed, the
\* component is Loading with atomsInfo and atomStats already empty: in no
\* state where the load of the changed reference is pending and loading is
\* true are atom statistics of the previous structure left.
C20_ClearedBeforeFetch ==
    (/\ phase = "mounted"
     /\ refChanges > 0
     /\ loading
     /\ latest.ref = cifUrl
     /\ latest.outcome = "pending")
    => (atomsInfo = <<>> /\ atomStats = <<>>)

\* C12: after a click on an atom of the displayed structure exactly one
\* atom carries the highlight style, the one clicked last, whatever was
\* highlighted before; currentAtom holds that atom's element, position
\* and the reference record of its element.
C12_OneHighlight ==
    lastEvent[1] = "Click" =>
      LET atom == SceneAtoms[lastEvent[2]] IN
      /\ Highlighted(vstyles) = {lastEvent[2]}
      /\ currentAtom.element = atom.elem
      /\ currentAtom.position = atom.pos
      /\ currentAtom.elementProperties = elementData[atom.elem]
      /\ currentAtom.atomicNumber = elementData[atom.elem].atomicNumber

\* A click on an atom while another atom was highlighted.
C12_Witness ==
    /\ lastEvent[1] = "Click"
    /\ lastEvent[3] # {}
    /\ lastEvent[2] \notin lastEvent[3]

\* C15: updateStyle is idempotent.  With the controls unchanged, calling it
\* twice leaves the per-atom styles and the number of unit-cell and label
\* overlays as calling it once does.
C15_UpdateStyleIdempotent ==
    (phase = "mounted" /\ viewer # NULL /\ vmodels # <<>>)
    => updateStyle(updateStyle(Scene, Controls), Controls)
         = updateStyle(Scene, Controls)

\* The kinds of overlay the scene shows.
OverlaySet(sc) ==
    (IF sc.unitCells > 0 THEN {"unit cell"} ELSE {})
    \cup (IF sc.labelSets > 0 THEN {"atom labels"} ELSE {})

\* C16: the two overlay toggles commute.  From a displayed structure with
\* both off, enabling atom labels and then the unit cell (updateStyle
\* after each) gives the same overlay set and the same atom styles as
\* enabling them in the reverse order.
C16_TogglesCommute ==
    (/\ phase = "mounted" /\ viewer # NULL /\ ~loading
     /\ ~showUnitCell /\ ~showAtomLabels)
    => LET lab  == [Controls EXCEPT !.labels = TRUE]
           cell == [Controls EXCEPT !.unitCell = TRUE]
           both == [Controls EXCEPT !.labels = TRUE, !.unitCell = TRUE]
           labFirst  == updateStyle(updateStyle(Scene, lab), both)
           cellFirst == updateStyle(updateStyle(Scene, cell), both)
       IN /\ OverlaySet(labFirst) = OverlaySet(cellFirst)
          /\ OverlaySet(labFirst) = {"unit cell", "atom labels"}
          /\ labFirst.styles = cellFirst.styles

\* A structure is displayed with both toggles off and no overlay in the
\* scene (it was loaded with the unit cell switched off).
C16_Witness ==
    /\ phase = "mounted" /\ ~loading /\ vmodels # <<>>
    /\ ~showUnitCell /\ ~showAtomLabels
    /\ unitCells = 0 /\ labelSets = 0

\* C18: once the structure of one Fe and one O atom is loaded, atomStats
\* is {Fe: 1, O: 1}; a click on its Fe atom sets currentAtom to element Fe
\* with atomic number 26.
C18_EndToEnd ==
    (phase = "mounted" /\ vmodels = <<Resource("a.cif").atoms>>)
    => /\ atomStats = [Fe |-> 1, O |-> 1]
       /\ lastEvent[1] = "Click" /\ SceneAtoms[lastEvent[2]].elem = "Fe"
            => /\ currentAtom.element = "Fe"
               /\ currentAtom.atomicNumber = 26
               /\ currentAtom.elementProperties.atomicNumber = 26

\* The Fe atom of that structure was clicked.
C18_Witness ==
    /\ phase = "mounted"
    /\ vmodels = <<Resource("a.cif").atoms>>
    /\ lastEvent[1] = "Click"
    /\ SceneAtoms[lastEvent[2]].elem = "Fe"
    /\ atomStats = [Fe |-> 1, O |-> 1]

\* C13: while the pointer rests on an atom of the displayed structure the
\* tooltip is shown for that atom's element and position, and it is not
\* shown once the pointer has left the atom.
C13_HoverShowsTooltip ==
    /\ (CanvasReachable /\ hoverAtom \in DOMAIN SceneAtoms)
          => /\ showTooltip
             /\ currentAtom.element = SceneAtoms[hoverAtom].elem
             /\ currentAtom.position = SceneAtoms[hoverAtom].pos
    /\ hoverAtom = 0 => ~showTooltip

\* C14: every size change of the container while a viewer exists calls
\* viewer.resize() once and is followed by a render; resize() is called
\* and a resize render runs in no other step; these steps leave
\* currentAtom and the atom styles (the highlight) unchanged.
C14_ResizeContract ==
    /\ [][/\ (lastEvent'[1] = "Resize" /\ viewer # NULL)
             => (/\ resizeCalls' = resizeCalls + 1
                 /\ pendingRenders' = pendingRenders + 1)
          /\ (resizeCalls' # resizeCalls) => (lastEvent'[1] = "Resize")
          /\ (resizeRenders' # resizeRenders)
             => (/\ lastEvent'[1] = "ResizeRender"
                 /\ pendingRenders > 0
                 /\ resizeRenders' = resizeRenders + 1)
          /\ (lastEvent'[1] \in {"Resize", "ResizeRender"})
             => (UNCHANGED <<currentAtom, vstyles, unitCells, labelSets>>)
         ]_vars
    /\ [](resizeCalls = sizeChanges)
    /\ [](resizeRenders + pendingRenders = resizeCalls)
    /\ \A k \in 1..MaxResizes : (resizeCalls >= k) ~> (resizeRenders >= k)

\* The container changed size twice while an atom was highlighted, and
\* both renders have run.
C14_Witness ==
    /\ lastEvent[1] = "ResizeRender"
    /\ resizeCalls = 2
    /\ resizeRenders = 2
    /\ Highlighted(vstyles) # {}
    /\ currentAtom # NoAtom

\* C17: getElementData returns the placeholder record (name and category
\* "Unknown", color "#CCCCCC", atomic number 0, symbol the input) for
\* every symbol that is no key of the table, and the key's record for
\* every key; it raises for no symbol.
C17_PlaceholderForUnknown ==
    elementAnswers # <<>> =>
      IF symbol \in DOMAIN elementData
      THEN elementAnswers[1] = elementData[symbol]
      ELSE elementAnswers[1] =
             [name |-> "Unknown", symbol |-> symbol, atomicNumber |-> 0,
              category |-> "Unknown", color |-> "#CCCCCC"]

\* An absolute URL.
IsAbsolute(u) ==
    /\ ~u.isNull
    /\ \/ startsWith(u.chars, HttpPrefix \o <<":", "/", "/">>)
       \/ startsWith(u.chars, HttpPrefix \o <<"s", ":", "/", "/">>)

\* C19: getStructureUrl returns null exactly for a null or empty
\* reference and an absolute URL otherwise; an absolute reference comes
\* back unchanged, and so does every result when resolved again; both
\* "/api/structures/<name>" and the bare "<name>" resolve to
\* "<API base>/structures/<name>".
C19_ResolvesToAbsolute ==
    urlAnswers # <<>> =>
      LET u == urlAnswers[1] IN
      /\ (u = JsNull) <=> (path = JsNull \/ path = Str(<<>>))
      /\ (u # JsNull) => IsAbsolute(u)
      /\ IsAbsolute(path) => (u = path)
      /\ (Len(urlAnswers) = 2) => (urlAnswers[2] = u)
      /\ \A n \in Names :
            (path = Str(ApiStructuresPrefix \o n) \/ path = Str(n))
            => (u = Str(API_BASE_URL \o StructuresDir \o n))

\* C21: content with neither "data_" nor "_cell_" is rejected with the
\* invalid-format error and is not parsed: the step that receives it
\* ends the load, leaves the viewer's models, atomsInfo and atomStats as
\* they were, sets the invalid-format error and sets loading false.
C21_RejectsUnmarkedContent ==
    [][\A l \in loads :
         (lastEvent' = <<"BodyArrives", l.id>>
            /\ Resource(l.ref).kind = "nomarker")
         => (/\ ~StillInFlight(l)
             /\ error' = "Failed to load structure: Response is not a valid CIF file"
             /\ loading' = FALSE
             /\ UNCHANGED <<vmodels, atomsInfo, atomStats>>)
      ]_vars

\* Content without a marker arrived while a structure was on display.
C21_Witness ==
    /\ lastEvent[1] = "BodyArrives"
    /\ lastCause = "format"
    /\ cifUrl = "notes.txt"
    /\ vmodels # <<>>
    /\ atomsInfo # <<>>

\* The kinds of draw directive in a style object.
Kinds(obj) == {d.kind : d \in obj}

\* The colours named by a style object.
ColorsOf(obj) == {d.color : d \in obj}

\* Displayed: a structure in the viewer, no overlay over it.
Displayed == CanvasReachable /\ viewer # NULL /\ vmodels # <<>>

\* C22: a successful load applies the active render style.  In Displayed
\* every atom but a highlighted one is drawn with the directive kinds of
\* the style the controls show; when a load has just completed, every atom
\* has the colour its element has under the colour toggle, and a unit-cell
\* and a label overlay are in the scene exactly when their toggles are on.
C22_LoadAppliesActiveStyle ==
    Displayed =>
      /\ \A i \in DOMAIN vstyles :
            i \notin Highlighted(vstyles)
            => Kinds(vstyles[i]) = Kinds(StyleObj(style))
      /\ lastEvent[1] = "BodyArrives" =>
           /\ \A i \in DOMAIN vstyles :
                 ColorsOf(vstyles[i]) =
                   IF useElementColors
                   THEN {getElementColor(SceneAtoms[i].elem)}
                   ELSE {DEFAULT}
           /\ (unitCells > 0) <=> showUnitCell
           /\ (labelSets > 0) <=> showAtomLabels

\* C23: the overlays follow their toggles.  After a change of the
\* unit-cell or the atom-labels toggle on a displayed structure the scene
\* holds a unit-cell overlay exactly when showUnitCell is true and a label
\* overlay exactly when showAtomLabels is true.
C23_OverlaysFollowToggles ==
    (Displayed /\ lastEvent[1] \in {"ToggleUnitCell", "ToggleAtomLabels"})
    => /\ (unitCells > 0) <=> showUnitCell
       /\ (labelSets > 0) <=> showAtomLabels

\* The directive kinds of the four render styles.
StyleKinds(st) ==
    CASE st = "ball and stick" -> {"stick", "sphere"}
      [] st = "stick"  -> {"stick"}
      [] st = "sphere" -> {"sphere"}
      [] st = "line"   -> {"line"}

\* Every atom of the scene styles has the kinds of style st and, with
\* colours on, the reference colour of its element (no colour otherwise).
DrawnAs(styles, st, colors) ==
    /\ DOMAIN styles = DOMAIN SceneAtoms
    /\ \A i \in DOMAIN styles :
          /\ Kinds(styles[i]) = StyleKinds(st)
          /\ ColorsOf(styles[i]) =
               IF colors THEN {elementData[SceneAtoms[i].elem].color}
               ELSE {DEFAULT}

\* C24: for each of the four render styles, updateStyle on a displayed
\* structure draws every atom with the directive kinds of the style, in
\* its element's reference colour when element colours are on and without
\* element colour when they are off; the kinds do not depend on the
\* colour toggle.  This holds of the scene after each change of the style
\* select or the colour toggle, and of updateStyle for every setting.
C24_StyleDirectives ==
    Displayed =>
      /\ \A st \in Styles : \A c \in BOOLEAN :
            DrawnAs(updateStyle(Scene, [Controls EXCEPT !.style = st,
                                                        !.colors = c]).styles,
                    st, c)
      /\ lastEvent[1] \in {"SelectStyle", "ToggleElementColors"}
            => DrawnAs(vstyles, style, useElementColors)

\* The colours were switched off while the line style was selected, on a
\* structure that had been drawn in another style before.
C24_Witness ==
    /\ Displayed
    /\ lastEvent[1] = "ToggleElementColors"
    /\ style = "line"
    /\ ~useElementColors
    /\ cifUrl = "b.cif"
    /\ Len(vstyles) = 3

\* C25: one event, one load.  No step of an instance starts more than one
\* fetch; the step that ends the initialization of a mount with a
\* non-null reference starts exactly one, and so does a change of the
\* reference to a non-null value while a viewer exists; hence no two
\* fetches started by one step are in flight together.
C25_OneLoadPerEvent ==
    [][SameInstance =>
         /\ fetchCount' \in {fetchCount, fetchCount + 1}
         /\ (lastEvent' = <<"ViewerCreated", 0>> /\ cifUrl' # NULL)
            => (fetchCount' = fetchCount + 1)
         /\ (cifUrl' # cifUrl /\ cifUrl' # NULL /\ viewer # NULL)
            => (fetchCount' = fetchCount + 1)
         /\ \A l, m \in loads' \ loads : l = m
      ]_vars

\* An initialization or a structure load is suspended at an await.
InFlight == initPc \in {"awaitLib", "awaitDelay"} \/ loads # {}

\* C26: while the component is mounted, loading is true exactly while an
\* initialization or a structure load is in flight: never false with a
\* load pending, never true with nothing in flight.
C26_LoadingIffInFlight == phase = "mounted" => (loading <=> InFlight)

\* C27: the error slot follows the most recently requested reference.
\* When the load started last was for the current reference and has
\* succeeded, error is null, whatever loads started earlier do afterwards.
C27_ErrorOfLatestLoad ==
    (/\ phase = "mounted"
     /\ cifUrl # NULL
     /\ latest.ref = cifUrl
     /\ latest.outcome = "ok")
    => error = NULL

\* C28: the selection does not outlive its structure.  When a load has
\* completed, currentAtom is null or describes an atom of the model now
\* in the viewer.
C28_SelectionOfLoadedStructure ==
    (phase = "mounted" /\ lastEvent[1] = "BodyArrives" /\ vmodels # <<>>)
    => \/ currentAtom = NoAtom
       \/ \E i \in DOMAIN SceneAtoms :
             /\ currentAtom.element = SceneAtoms[i].elem
             /\ currentAtom.position = SceneAtoms[i].pos

\* The materials on display come from one response.
OneResponse ==
    \A i, j \in DOMAIN generatedMaterials :
       generatedMaterials[i].material_id[1]
         = generatedMaterials[j].material_id[1]

\* C29: page root.  selectedMaterial is null or an element of the current
\* generatedMaterials list, which holds materials of one response only;
\* after a success event the first material of a non-empty list is
\* selected and nothing is selected for an empty list; after an error
\* event the list is empty and selectedMaterial and processTime are null;
\* after a card click the clicked material of the current list is
\* selected.
C29_SelectionInCurrentList ==
    /\ \/ selectedMaterial = NoMaterial
       \/ \E i \in DOMAIN generatedMaterials :
             generatedMaterials[i] = selectedMaterial
    /\ OneResponse
    /\ lastEvent[1] = "success"
          => /\ \A i \in DOMAIN generatedMaterials :
                   generatedMaterials[i].material_id = <<requests, i>>
             /\ selectedMaterial =
                   IF generatedMaterials # <<>> THEN generatedMaterials[1]
                   ELSE NoMaterial
    /\ lastEvent[1] = "error"
          => /\ generatedMaterials = <<>>
             /\ selectedMaterial = NoMaterial
             /\ processTime = NULL
    /\ lastEvent[1] = "CardClick"
          => selectedMaterial = generatedMaterials[lastEvent[2]]

\* A success, an error and another success were received, and the second
\* card of the list now on display was clicked.
C29_Witness ==
    /\ events = <<"success", "error", "success">>
    /\ lastEvent = <<"CardClick", 2>>
    /\ selectedMaterial = Material(3, 2)

\* An empty or whitespace-only query.
Blank(q) == \A i \in DOMAIN q : q[i] \in Whitespace

\* The step handles a submit event.
IsSubmit == submits' = submits + 1

\* The step dispatches an event of the form.
Dispatches == events' # events

\* What C30 says of submits, requests, the number of events and the
\* loading flag: a blank submit sets the form error, sends nothing and
\* dispatches nothing; any other submit sends one request; requests are
\* sent by submits only; an event is dispatched only by the step that
\* settles the request, one per request, and loading is true exactly while
\* the request is in flight.
C30_Counts ==
    /\ [][/\ (IsSubmit /\ Blank(query))
             => (/\ formError' = "Please enter a material description"
                 /\ requests' = requests
                 /\ ~Dispatches
                 /\ formLoading' = FALSE
                 /\ request' = NoRequest)
          /\ (IsSubmit /\ ~Blank(query))
             => (/\ requests' = requests + 1
                 /\ ~Dispatches
                 /\ formLoading' = TRUE
                 /\ request' # NoRequest)
          /\ (requests' # requests) => IsSubmit
          /\ Dispatches
             => (/\ Len(events') = Len(events) + 1
                 /\ request # NoRequest
                 /\ request' = NoRequest
                 /\ formLoading' = FALSE)
         ]_vars
    /\ [](formLoading <=> request # NoRequest)
    /\ [](Len(events) + (IF request # NoRequest THEN 1 ELSE 0) = requests)

====
